---- MODULE Spec2Model ----
(***************************************************************************)
(* Model of the BC breweries scraper: brewery-scraper.py (the main pass)   *)
(* and brewery-menu-scraper.py (the menu enrichment pass).                 *)
(*                                                                         *)
(* A Python str is a sequence of one-character strings, a Python list a    *)
(* sequence, a Python dict a function from its keys (TLA+ strings).        *)
(***************************************************************************)
EXTENDS Integers, Sequences, FiniteSets, TLC

VARIABLES
    prog,            \* which entry point runs
    pc,              \* position of the single thread of control
    features_file,   \* features_to_keep.json: Some(list), or Nothing when unreadable
    limit,           \* scrape_all_breweries(limit); 0 stands for None
    brewery_cards,   \* the .listing-item cards of the listing page
    i,               \* loop index (0-based, as enumerate gives it)
    all_breweries,   \* main pass: the accumulated records
    df,              \* main pass: Some(rows of the returned DataFrame), or Nothing
    breweries,       \* enrichment: the loaded record list (objects by position)
    brewery_dict,    \* enrichment: name -> position of the object it maps to
    to_update,       \* enrichment: positions of the objects lacking menu_url
    updated_count,   \* enrichment: updated_count
    trace,           \* the network calls and sleeps made so far
    fs,              \* the files on disk: filename -> content
    arg,             \* argument of a normaliser call
    ret              \* its return value

vars == <<prog, pc, features_file, limit, brewery_cards, i, all_breweries, df,
          breweries, brewery_dict, to_update, updated_count, trace, fs, arg, ret>>

----------------------------------------------------------------------------
(* Bounds of the model *)

MaxCards == 3
MaxRecs == 3
MaxAddrTokens == 5
MaxPhoneLen == 5
MaxTags == 3
MaxAllow == 2

----------------------------------------------------------------------------
(* Python values *)

None == "None"
\* An optional value: Nothing (Python's None, a file that cannot be read) or Some(v)
Nothing == <<>>
Some(v) == <<v>>
IsSome(o) == Len(o) = 1
Get(o) == o[1]
NaN == "NaN"
NA == <<"N", "/", "A">>
BC == <<"B", "C">>
Canada == <<"C", "a", "n", "a", "d", "a">>
EmptyStr == <<>>

Letters ==
    {"A", "B", "C", "D", "E", "F", "G", "H", "I", "J", "K", "L", "M", "N", "O",
     "P", "Q", "R", "S", "T", "U", "V", "W", "X", "Y", "Z",
     "a", "b", "c", "d", "e", "f", "g", "h", "i", "j", "k", "l", "m", "n", "o",
     "p", "q", "r", "s", "t", "u", "v", "w", "x", "y", "z"}
Digits == {"0", "1", "2", "3", "4", "5", "6", "7", "8", "9"}
Whitespace == {" ", "\t", "\n"}

Min(a, b) == IF a < b THEN a ELSE b

\* s[a..b] as Python slices it: empty when a > b
Slice(s, a, b) == IF a > b THEN <<>> ELSE SubSeq(s, a, b)

\* str.strip()
Strip(s) ==
    LET keep == {k \in 1..Len(s) : s[k] \notin Whitespace}
    IN IF keep = {} THEN <<>>
       ELSE LET lo == CHOOSE k \in keep : \A m \in keep : k <= m
                hi == CHOOSE k \in keep : \A m \in keep : k >= m
            IN SubSeq(s, lo, hi)

\* str.split(sep) for a one-character sep: always at least one segment
RECURSIVE Split(_, _)
Split(s, sep) ==
    LET at == {k \in 1..Len(s) : s[k] = sep}
    IN IF at = {} THEN <<s>>
       ELSE LET p == CHOOSE k \in at : \A m \in at : k <= m
            IN <<Slice(s, 1, p - 1)>> \o Split(Slice(s, p + 1, Len(s)), sep)

\* [f(x) for x in xs] with f = Strip
RECURSIVE StripAll(_)
StripAll(xs) == IF xs = <<>> THEN <<>> ELSE <<Strip(Head(xs))>> \o StripAll(Tail(xs))

\* d.update(e): e's keys win
Update(d, e) == e @@ d

----------------------------------------------------------------------------
(* Field normalisers (brewery-scraper.py) *)

\* Length of the match of [A-Za-z]\d[A-Za-z]\s?\d[A-Za-z]\d starting at s[p];
\* 0 when there is none.  \s? is greedy: the whitespace is taken when present.
PostalMatchLen(s, p) ==
    LET L(k) == k <= Len(s) /\ s[k] \in Letters
        D(k) == k <= Len(s) /\ s[k] \in Digits
        W(k) == k <= Len(s) /\ s[k] \in Whitespace
    IN IF ~(L(p) /\ D(p + 1) /\ L(p + 2)) THEN 0
       ELSE IF W(p + 3) /\ D(p + 4) /\ L(p + 5) /\ D(p + 6) THEN 7
       ELSE IF D(p + 3) /\ L(p + 4) /\ D(p + 5) THEN 6
       ELSE 0

\* re.search(pattern, s): the leftmost match's text (group(0)), or Nothing
re_search(s) ==
    LET starts == {p \in 1..Len(s) : PostalMatchLen(s, p) > 0}
    IN IF starts = {} THEN Nothing
       ELSE LET p == CHOOSE q \in starts : \A m \in starts : q <= m
            IN Some(SubSeq(s, p, p + PostalMatchLen(s, p) - 1))

\* parse_address scanning the last segment even when it is the only one
parse_address_any_segment(full_address) ==
    LET parts == StripAll(Split(full_address, ","))
        address == IF parts # <<>> THEN Strip(parts[1]) ELSE NA
        postal_match == IF Len(parts) > 0 THEN re_search(parts[Len(parts)]) ELSE Nothing
        postal_code == IF IsSome(postal_match) THEN Strip(Get(postal_match)) ELSE NA
    IN [address |-> address, postal_code |-> postal_code,
        state_province |-> BC, country |-> Canada]

parse_address(full_address) ==
    LET parts == StripAll(Split(full_address, ","))
        address == IF parts # <<>> THEN Strip(parts[1]) ELSE NA
        postal_match == IF Len(parts) > 1 THEN re_search(parts[Len(parts)]) ELSE Nothing
        postal_code == IF IsSome(postal_match) THEN Strip(Get(postal_match)) ELSE NA
    IN [address |-> address, postal_code |-> postal_code,
        state_province |-> BC, country |-> Canada]

\* the comprehension turned round: [a for a in allowed_features if a in features]
RECURSIVE KeepAllowed_allow_order(_, _)
KeepAllowed_allow_order(features, allowed_features) ==
    IF allowed_features = <<>> THEN <<>>
    ELSE (IF \E k \in 1..Len(features) : features[k] = Head(allowed_features)
          THEN <<Head(allowed_features)>> ELSE <<>>)
         \o KeepAllowed_allow_order(features, Tail(allowed_features))

\* [feature for feature in features if feature in allowed_features]
RECURSIVE KeepAllowed(_, _)
KeepAllowed(features, allowed_features) ==
    IF features = <<>> THEN <<>>
    ELSE (IF \E k \in 1..Len(allowed_features) : allowed_features[k] = Head(features)
          THEN <<Head(features)>> ELSE <<>>)
         \o KeepAllowed(Tail(features), allowed_features)

\* file is what open('features_to_keep.json') finds
filter_features(features, file) ==
    IF ~IsSome(file) THEN <<>> ELSE KeepAllowed(features, Get(file))

\* the character class written [^1-9]: zeros are stripped too
RECURSIVE clean_phone_number_no_zero(_)
clean_phone_number_no_zero(phone) ==
    IF phone = <<>> THEN <<>>
    ELSE (IF Head(phone) \in Digits \ {"0"} THEN <<Head(phone)>> ELSE <<>>)
         \o clean_phone_number_no_zero(Tail(phone))

\* re.sub(r'[^0-9]', '', phone)
RECURSIVE clean_phone_number(_)
clean_phone_number(phone) ==
    IF phone = <<>> THEN <<>>
    ELSE (IF Head(phone) \in Digits THEN <<Head(phone)>> ELSE <<>>)
         \o clean_phone_number(Tail(phone))

----------------------------------------------------------------------------
(* Inputs of the normaliser calls *)

RECURSIVE Flatten(_)
Flatten(ss) == IF ss = <<>> THEN <<>> ELSE Head(ss) \o Flatten(Tail(ss))

SeqsUpTo(S, n) == UNION {[1..k -> S] : k \in 0..n}

AddrTokens == {<<"V", "5", "K">>, <<"0", "a", "1">>, <<" ">>, <<",">>, <<"M">>, <<"7">>}
Addresses == {Flatten(ts) : ts \in SeqsUpTo(AddrTokens, MaxAddrTokens)}

PhoneChars == {"6", "0", "(", "-", " "}
Phones == SeqsUpTo(PhoneChars, MaxPhoneLen)

Brewery == <<"B", "r", "e", "w", "e", "r", "y">>
Taproom == <<"T", "a", "p", "r", "o", "o", "m">>
BadTag == <<"B", "a", "d", " ", "T", "a", "g">>
Tags == {Brewery, Taproom, BadTag}
FeatureLists == SeqsUpTo(Tags, MaxTags)
AllowFiles == {Nothing} \cup {Some(a) : a \in SeqsUpTo(Tags, MaxAllow)}

----------------------------------------------------------------------------
(* State shared by the specifications *)

NoFs == <<>>

IdleScripts ==
    /\ limit = 0
    /\ brewery_cards = <<>>
    /\ i = 0
    /\ all_breweries = <<>>
    /\ df = Nothing
    /\ breweries = <<>>
    /\ brewery_dict = <<>>
    /\ to_update = <<>>
    /\ updated_count = 0
    /\ trace = <<>>
    /\ fs = NoFs

ScriptVars == <<limit, brewery_cards, i, all_breweries, df, breweries,
                brewery_dict, to_update, updated_count, trace, fs>>

----------------------------------------------------------------------------
(* The normalisers called on their own *)

InitAddress ==
    /\ prog = "parse_address" /\ pc = "call"
    /\ features_file = Nothing
    /\ arg \in Addresses /\ ret = None
    /\ IdleScripts

CallParseAddress ==
    /\ prog = "parse_address" /\ pc = "call"
    /\ ret' = parse_address(arg)
    /\ pc' = "done"
    /\ UNCHANGED <<prog, features_file, arg, ScriptVars>>

SpecAddress == InitAddress /\ [][CallParseAddress]_vars

InitPhone ==
    /\ prog = "clean_phone_number" /\ pc = "call"
    /\ features_file = Nothing
    /\ arg \in Phones /\ ret = None
    /\ IdleScripts

CallCleanPhone ==
    /\ prog = "clean_phone_number" /\ pc = "call"
    /\ ret' = clean_phone_number(arg)
    /\ pc' = "done"
    /\ UNCHANGED <<prog, features_file, arg, ScriptVars>>

SpecPhone == InitPhone /\ [][CallCleanPhone]_vars

InitFeatures ==
    /\ prog = "filter_features" /\ pc = "call"
    /\ features_file \in AllowFiles
    /\ arg \in FeatureLists /\ ret = None
    /\ IdleScripts

CallFilterFeatures ==
    /\ prog = "filter_features" /\ pc = "call"
    /\ ret' = filter_features(arg, features_file)
    /\ pc' = "done"
    /\ UNCHANGED <<prog, features_file, arg, ScriptVars>>

SpecFeatures == InitFeatures /\ [][CallFilterFeatures]_vars

----------------------------------------------------------------------------
(* The main pass: brewery-scraper.py *)

Append2(s, a, b) == Append(Append(s, a), b)

\* a delay after every item, the last one too
NotLast_always(idx, n) == idx < n

\* "if i < len(...) - 1": no need to delay after the last brewery
NotLast(idx, n) == idx < n - 1

\* the detail page is fetched whatever the url
HasDetailLink_always(brewery) == TRUE

\* if brewery["url"] != "N/A"
HasDetailLink(brewery) == brewery.url # NA

Event(op, item, url) == [op |-> op, item |-> item, url |-> url]

\* The listing cards.  Each element of a card is there (Some) or not (Nothing).
Sep == <<" ", "|", " ">>
FeaturesText == Brewery \o Sep \o Taproom \o Sep \o BadTag
NameA == <<"A">>
NameB == <<"B">>
Vancouver == <<"V", "a", "n">>
DigitChar == <<"1", "2", "3", "4", "5", "6", "7", "8", "9">>
\* the detail link of the item at position k
UrlOf(k) == <<"u", DigitChar[k]>>

Card(title, location, features, href) ==
    [title |-> title, location |-> location, features |-> features, href |-> href]
CardsAt(k) ==
    {Card(Some(NameA), Some(Vancouver), Some(FeaturesText), Some(UrlOf(k))),
     Card(Some(NameA), Some(Vancouver), Some(FeaturesText), Nothing),
     Card(Nothing, Nothing, Nothing, Some(UrlOf(k))),
     Card(Nothing, Nothing, Nothing, Nothing)}
RECURSIVE PagesOfLen(_)
PagesOfLen(n) ==
    IF n = 0 THEN {<<>>} ELSE {Append(cs, c) : cs \in PagesOfLen(n - 1), c \in CardsAt(n)}
ListingPages == UNION {PagesOfLen(n) : n \in 0..MaxCards}

\* The detail pages
MainSt == <<"1", "2", "3", " ", "M", "a", "i", "n", " ", "S", "t", ",", " ",
            "V", "a", "n", "c", "o", "u", "v", "e", "r", ",", " ",
            "B", "C", " ", "V", "5", "K", " ", "0", "A", "1">>
PhoneText == <<"(", "6", "0", "4", ")", " ", "5", "5", "5", "-", "1", "2", "3", "4">>
Site == <<"w">>
Social1 == <<"s", "1">>
Social2 == <<"s", "2">>
DetailPage(address, tel, website, social) ==
    [address |-> address, tel |-> tel, website |-> website, social |-> social]
DetailPages ==
    {DetailPage(Nothing, Nothing, Nothing, <<>>),
     DetailPage(Nothing, Some(PhoneText), Some(Site), <<Some(Social1), Nothing, Some(Social2)>>),
     DetailPage(Some(MainSt), Some(PhoneText), Some(Site), <<Some(Social1), Some(Social2)>>)}

\* What requests.get can give: a network exception, or a response
Raised == [kind |-> "exception", status |-> 0, page |-> <<>>]
Response(status, page) == [kind |-> "response", status |-> status, page |-> page]
DetailResponses ==
    {Raised, Response(404, <<>>)} \cup {Response(200, pg) : pg \in DetailPages}

\* [link["href"] for link in social_media_elements if "href" in link.attrs]
RECURSIVE Hrefs(_)
Hrefs(links) ==
    IF links = <<>> THEN <<>>
    ELSE (IF IsSome(Head(links)) THEN <<Get(Head(links))>> ELSE <<>>) \o Hrefs(Tail(links))

detail_info_defaults ==
    [address |-> NA, postal_code |-> NA, state_province |-> NA,
     phone |-> NA, website_url |-> NA, social_media |-> NA]

\* scrape_brewery_detail(url), given what requests.get(url) gives
scrape_brewery_detail(resp) ==
    IF resp.kind = "exception" \/ resp.status # 200 THEN detail_info_defaults
    ELSE LET pg == resp.page
             d1 == IF IsSome(pg.address)
                   THEN Update(detail_info_defaults, parse_address(Strip(Get(pg.address))))
                   ELSE detail_info_defaults
             d2 == IF IsSome(pg.tel)
                   THEN [d1 EXCEPT !.phone = clean_phone_number(Strip(Get(pg.tel)))]
                   ELSE d1
             d3 == IF IsSome(pg.website)
                   THEN [d2 EXCEPT !.website_url = Get(pg.website)]
                   ELSE d2
         IN IF pg.social # <<>>
            THEN [d3 EXCEPT !.social_media = Hrefs(pg.social)]
            ELSE d3

\* The four fields scrape_all_breweries reads off a card
CardRecord(card, file) ==
    [name |-> IF IsSome(card.title) THEN Strip(Get(card.title)) ELSE NA,
     city |-> IF IsSome(card.location) THEN Strip(Get(card.location)) ELSE NA,
     brewery_type |->
         IF IsSome(card.features)
         THEN filter_features(StripAll(Split(Strip(Get(card.features)), "|")), file)
         ELSE <<>>,
     url |-> IF IsSome(card.href) THEN Get(card.href) ELSE NA]

\* pd.DataFrame(records): every row has every column, NaN where the record has no such key
Columns(records) == UNION {DOMAIN records[k] : k \in 1..Len(records)}
DataFrame(records) ==
    [k \in 1..Len(records) |->
        [c \in Columns(records) |-> IF c \in DOMAIN records[k] THEN records[k][c] ELSE NaN]]

WriteFile(files, name, content) == (name :> content) @@ files

InitScraper ==
    /\ prog = "scraper" /\ pc = "start"
    /\ features_file \in {Nothing, Some(<<Brewery, Taproom>>)}
    /\ limit \in 0..2
    /\ brewery_cards = <<>> /\ i = 0 /\ all_breweries = <<>> /\ df = Nothing
    /\ breweries = <<>> /\ brewery_dict = <<>> /\ to_update = <<>> /\ updated_count = 0
    /\ trace = <<>> /\ fs = NoFs
    /\ arg = None /\ ret = None

\* scrape_all_breweries up to its loop: the listing GET and the card selection
FetchListing ==
    /\ prog = "scraper" /\ pc = "start"
    /\ \/ \* requests.get raises: nothing catches it
          /\ pc' = "raised"
          /\ UNCHANGED <<brewery_cards, df>>
       \/ \* a status other than 200: return None, and __main__ saves nothing
          /\ pc' = "done"
          /\ UNCHANGED <<brewery_cards, df>>
       \/ \E cards \in ListingPages :
             IF cards = <<>>
             THEN /\ pc' = "done"
                  /\ UNCHANGED <<brewery_cards, df>>
             ELSE /\ brewery_cards' = IF limit > 0 THEN Slice(cards, 1, Min(limit, Len(cards)))
                                      ELSE cards
                  /\ pc' = "loop"
                  /\ UNCHANGED df
    /\ trace' = Append(trace, Event("listing", 0, <<>>))
    /\ UNCHANGED <<prog, features_file, limit, i, all_breweries, breweries, brewery_dict,
                   to_update, updated_count, fs, arg, ret>>

\* one iteration of the loop over brewery_cards
ProcessCard ==
    /\ prog = "scraper" /\ pc = "loop" /\ i < Len(brewery_cards)
    /\ LET brewery == CardRecord(brewery_cards[i + 1], features_file)
       IN IF HasDetailLink(brewery)
          THEN \E resp \in DetailResponses :
                  /\ all_breweries' =
                        Append(all_breweries, Update(brewery, scrape_brewery_detail(resp)))
                  /\ trace' = IF NotLast(i, Len(brewery_cards))
                              THEN Append2(trace, Event("fetch", i, brewery.url),
                                                  Event("delay", i, <<>>))
                              ELSE Append(trace, Event("fetch", i, brewery.url))
          ELSE /\ all_breweries' = Append(all_breweries, brewery)
               /\ UNCHANGED trace
    /\ i' = i + 1
    /\ UNCHANGED <<prog, pc, features_file, limit, brewery_cards, df, breweries,
                   brewery_dict, to_update, updated_count, fs, arg, ret>>

\* the end of scrape_all_breweries, and __main__'s test of what it returned
FinishScrape ==
    /\ prog = "scraper" /\ pc = "loop" /\ i = Len(brewery_cards)
    /\ IF all_breweries = <<>>
       THEN df' = Nothing /\ pc' = "done"
       ELSE df' = Some(DataFrame(all_breweries)) /\ pc' = "save_json"
    /\ UNCHANGED <<prog, features_file, limit, brewery_cards, i, all_breweries, breweries,
                   brewery_dict, to_update, updated_count, trace, fs, arg, ret>>

\* save_data(df, file_type): no try around the write
save_data(file_type, next) ==
    /\ \/ /\ fs' = WriteFile(fs, <<"bc_breweries_complete", file_type>>, Get(df))
          /\ pc' = next
       \/ \* the write fails: the exception leaves save_data and __main__
          /\ pc' = "raised"
          /\ UNCHANGED fs
    /\ UNCHANGED <<prog, features_file, limit, brewery_cards, i, all_breweries, df,
                   breweries, brewery_dict, to_update, updated_count, trace, arg, ret>>

SaveJson == prog = "scraper" /\ pc = "save_json" /\ save_data("json", "save_csv")

SaveCsv == prog = "scraper" /\ pc = "save_csv" /\ save_data("csv", "done")

----------------------------------------------------------------------------
(* The enrichment pass: brewery-menu-scraper.py *)

SourceFile == <<"bc_breweries_complete", "json">>
MenuJson == <<"bc_breweries_complete_with_menus", "json">>
MenuCsv == <<"bc_breweries_complete_with_menus", "csv">>

OldMenu == <<"m", "0">>
\* the href of the "View All Beers" link on the detail page at url
MenuOf(url) == url \o <<"/", "m">>
Elsewhere == <<"x">>

Field(key, value) == IF IsSome(value) THEN key :> Get(value) ELSE <<>>
Rec(name, url, menu_url) ==
    Field("name", name) @@ Field("url", url) @@ Field("menu_url", menu_url)
        @@ [city |-> Vancouver]

\* The records the source file may hold at position k: named ones with and
\* without a url and a menu_url, and a record with no name or an empty one
RecsAt(k) ==
    {Rec(Some(n), u, m) : n \in {NameA, NameB}, u \in {Some(NA), Some(UrlOf(k))},
                          m \in {Nothing, Some(OldMenu)}}
    \cup {Rec(Some(NameA), Nothing, Nothing),
          Rec(Nothing, Some(UrlOf(k)), Nothing), Rec(Some(EmptyStr), Some(UrlOf(k)), Nothing)}
RECURSIVE RecordSetsOfLen(_)
RecordSetsOfLen(n) ==
    IF n = 0 THEN {<<>>} ELSE {Append(rs, r) : rs \in RecordSetsOfLen(n - 1), r \in RecsAt(n)}
RecordSets == UNION {RecordSetsOfLen(n) : n \in 0..MaxRecs}

\* The .section-header links of a detail page: whether the text holds
\* "View All Beers", and the href attribute
Link(marked, href) == [marked |-> marked, href |-> href]
MenuPages(url) ==
    {<<>>,
     <<Link(FALSE, Some(Elsewhere))>>,
     <<Link(FALSE, Some(Elsewhere)), Link(TRUE, Some(MenuOf(url))), Link(TRUE, Some(Elsewhere))>>,
     <<Link(TRUE, Nothing)>>}
MenuResponses(url) ==
    {Raised, Response(404, <<>>)} \cup {Response(200, pg) : pg \in MenuPages(url)}

\* extract_menu_url(detail_url), given what requests.get(detail_url) gives
extract_menu_url(resp) ==
    IF resp.kind = "exception" \/ resp.status # 200 THEN NA
    ELSE LET links == resp.page
             marked == {k \in 1..Len(links) : links[k].marked}
         IN IF marked = {} THEN NA
            ELSE LET menu_element == links[CHOOSE k \in marked : \A m \in marked : k <= m]
                 IN \* menu_element["href"] raises KeyError without the attribute
                    IF IsSome(menu_element.href) THEN Get(menu_element.href) ELSE NA

\* brewery.get('name', '')
NameOf(brewery) == IF "name" \in DOMAIN brewery THEN brewery.name ELSE EmptyStr

\* {brewery.get('name', ''): brewery for brewery in breweries}: a later record
\* replaces an earlier one of the same name.  An object is named by its position.
BreweryDict(records) ==
    [n \in {NameOf(records[k]) : k \in 1..Len(records)} |->
        CHOOSE k \in 1..Len(records) :
            /\ NameOf(records[k]) = n
            /\ \A m \in 1..Len(records) : NameOf(records[m]) = n => m <= k]

\* the filter left out: every record is taken to need a menu_url
RECURSIVE Lacking_all(_, _)
Lacking_all(records, k) ==
    IF k > Len(records) THEN <<>> ELSE <<k>> \o Lacking_all(records, k + 1)

\* [b for b in breweries if "menu_url" not in b], as positions in breweries
RECURSIVE Lacking(_, _)
Lacking(records, k) ==
    IF k > Len(records) THEN <<>>
    ELSE (IF "menu_url" \notin DOMAIN records[k] THEN <<k>> ELSE <<>>)
         \o Lacking(records, k + 1)

InitMenu ==
    /\ prog = "menu" /\ pc = "start"
    /\ features_file = Nothing
    /\ limit = 0 /\ brewery_cards = <<>> /\ i = 0 /\ all_breweries = <<>> /\ df = Nothing
    /\ breweries = <<>> /\ brewery_dict = <<>> /\ to_update = <<>> /\ updated_count = 0
    /\ trace = <<>>
    /\ \/ fs = NoFs
       \/ \E rs \in RecordSets : fs = WriteFile(NoFs, SourceFile, rs)
    /\ arg = None /\ ret = None

\* update_breweries_with_menu_urls up to its loop
LoadBreweries ==
    /\ prog = "menu" /\ pc = "start"
    /\ IF SourceFile \notin DOMAIN fs
       THEN \* the open fails: logged, and the function returns
            /\ pc' = "done"
            /\ UNCHANGED <<breweries, brewery_dict, to_update>>
       ELSE /\ breweries' = fs[SourceFile]
            /\ brewery_dict' = BreweryDict(fs[SourceFile])
            /\ to_update' = Lacking(fs[SourceFile], 1)
            /\ pc' = "loop"
    /\ UNCHANGED <<prog, features_file, limit, brewery_cards, i, all_breweries, df,
                   updated_count, trace, fs, arg, ret>>

\* target_brewery["menu_url"] = menu_url
SetMenu(records, k, menu_url) ==
    [records EXCEPT ![k] = ("menu_url" :> menu_url) @@ records[k]]

\* one iteration of the loop over to_update
MenuStep ==
    /\ prog = "menu" /\ pc = "loop" /\ i < Len(to_update)
    /\ LET brewery == breweries[to_update[i + 1]]
           brewery_name == NameOf(brewery)
       IN IF brewery_name = EmptyStr \/ brewery_name \notin DOMAIN brewery_dict
          THEN UNCHANGED <<breweries, updated_count, trace>>
          ELSE LET t == brewery_dict[brewery_name]
                   target_brewery == breweries[t]
               IN IF "url" \in DOMAIN target_brewery /\ target_brewery.url # NA
                  THEN \E resp \in MenuResponses(target_brewery.url) :
                          /\ breweries' = SetMenu(breweries, t, extract_menu_url(resp))
                          /\ updated_count' = updated_count + 1
                          /\ trace' = IF NotLast(i, Len(to_update))
                                      THEN Append2(trace, Event("fetch", i, target_brewery.url),
                                                          Event("delay", i, <<>>))
                                      ELSE Append(trace, Event("fetch", i, target_brewery.url))
                  ELSE UNCHANGED <<breweries, updated_count, trace>>
    /\ i' = i + 1
    /\ UNCHANGED <<prog, pc, features_file, limit, brewery_cards, all_breweries, df,
                   brewery_dict, to_update, fs, arg, ret>>

\* the save at the end of update_breweries_with_menu_urls, inside its try
SaveMenus ==
    /\ prog = "menu" /\ pc = "loop" /\ i = Len(to_update)
    /\ \/ fs' = WriteFile(WriteFile(fs, MenuJson, breweries), MenuCsv, DataFrame(breweries))
       \/ \* the JSON is written and the CSV write fails: logged
          fs' = WriteFile(fs, MenuJson, breweries)
       \/ \* the JSON write fails: logged
          UNCHANGED fs
    /\ pc' = "done"
    /\ UNCHANGED <<prog, features_file, limit, brewery_cards, i, all_breweries, df,
                   breweries, brewery_dict, to_update, updated_count, trace, arg, ret>>

----------------------------------------------------------------------------
(* The two scripts *)

Init == InitScraper \/ InitMenu

Next ==
    \/ FetchListing
    \/ ProcessCard
    \/ FinishScrape
    \/ SaveJson
    \/ SaveCsv
    \/ LoadBreweries
    \/ MenuStep
    \/ SaveMenus

Spec == Init /\ [][Next]_vars

----------------------------------------------------------------------------
(* Properties of the normalisers *)

\* the n-th smallest member of a set of positions
NthOf(P, n) == CHOOSE k \in P : Cardinality({m \in P : m <= k}) = n

DigitPositions(s) == {k \in 1..Len(s) : s[k] \in Digits}

\* C8: clean_phone_number returns only digit characters, namely the digits of
\* its input in their original relative order, as many as the input has.
C8_PhoneKeepsDigitsInOrder ==
    (prog = "clean_phone_number" /\ pc = "done") =>
        /\ Len(ret) = Cardinality(DigitPositions(arg))
        /\ \A n \in 1..Len(ret) :
              ret[n] \in Digits /\ ret[n] = arg[NthOf(DigitPositions(arg), n)]

C8_Witness ==
    /\ prog = "clean_phone_number" /\ pc = "done"
    /\ arg = <<"(", "6", "0", "-", "6">>
    /\ ret = <<"6", "0", "6">>

InList(x, xs) == \E k \in 1..Len(xs) : xs[k] = x
FirstIndex(x, xs) == CHOOSE k \in 1..Len(xs) : xs[k] = x /\ \A m \in 1..(k - 1) : xs[m] # x

\* C6 as stated: filter_features returns only allow-listed tags, each of them a
\* tag of the input, in the relative order of the allow-list.
C6_AllowListOrder ==
    (prog = "filter_features" /\ pc = "done" /\ IsSome(features_file)) =>
        /\ \A n \in 1..Len(ret) : InList(ret[n], Get(features_file)) /\ InList(ret[n], arg)
        /\ \A m, n \in 1..Len(ret) :
              m < n => FirstIndex(ret[m], Get(features_file)) <= FirstIndex(ret[n], Get(features_file))

AllowedPositions == {k \in 1..Len(arg) : InList(arg[k], Get(features_file))}

\* C6 amended: filter_features returns only allow-listed tags, each of them a tag
\* of the input, in the relative order of the input list: the result is the input
\* with the tags outside the allow-list removed (and empty when the allow-list
\* cannot be loaded).
C6_InputOrder ==
    (prog = "filter_features" /\ pc = "done") =>
        IF IsSome(features_file)
        THEN /\ \A n \in 1..Len(ret) : InList(ret[n], Get(features_file))
             /\ Len(ret) = Cardinality(AllowedPositions)
             /\ \A n \in 1..Len(ret) : ret[n] = arg[NthOf(AllowedPositions, n)]
        ELSE ret = <<>>

C6_Witness ==
    /\ prog = "filter_features" /\ pc = "done"
    /\ features_file = Some(<<Brewery, Taproom>>)
    /\ arg = <<Taproom, BadTag, Brewery>>
    /\ ret = <<Taproom, Brewery>>

CommaPositions(s) == {k \in 1..Len(s) : s[k] = ","}
\* the text after the last comma; the whole string when there is no comma
TailOf(s) ==
    IF CommaPositions(s) = {} THEN s
    ELSE Slice(s, (CHOOSE k \in CommaPositions(s) : \A m \in CommaPositions(s) : m <= k) + 1, Len(s))
PostalStarts(s) == {p \in 1..Len(s) : PostalMatchLen(s, p) > 0}
\* code is the postal code of s that starts leftmost
IsLeftmostPostal(code, s) ==
    \E p \in PostalStarts(s) :
        /\ \A q \in PostalStarts(s) : p <= q
        /\ code = SubSeq(s, p, p + PostalMatchLen(s, p) - 1)

\* C7 as stated: whenever the tail of the address holds a postal code,
\* parse_address returns that substring, with or without a comma in the address.
C7_PostalFromAnyTail ==
    (prog = "parse_address" /\ pc = "done" /\ PostalStarts(TailOf(arg)) # {}) =>
        IsLeftmostPostal(ret.postal_code, TailOf(arg))

\* C7 amended: when the address has at least one comma and its last
\* comma-separated segment holds a postal code, parse_address returns the
\* leftmost matching substring of that segment; when the address has no comma
\* it returns "N/A", postal code or not.
C7_PostalFromLastOfSeveral ==
    (prog = "parse_address" /\ pc = "done") =>
        /\ (CommaPositions(arg) # {} /\ PostalStarts(TailOf(arg)) # {}) =>
              IsLeftmostPostal(ret.postal_code, TailOf(arg))
        /\ CommaPositions(arg) = {} => ret.postal_code = NA

C7_Witness ==
    /\ prog = "parse_address" /\ pc = "done"
    /\ arg = <<",", " ", "V", "5", "K", " ", "0", "a", "1">>
    /\ ret.postal_code = <<"V", "5", "K", " ", "0", "a", "1">>

----------------------------------------------------------------------------
(* Properties of the two passes *)

IsFetch(e) == e.op = "fetch"
IsDelay(e) == e.op = "delay"
FetchEvents == SelectSeq(trace, IsFetch)

\* the list the running pass loops over
PassLength == IF prog = "scraper" THEN Len(brewery_cards) ELSE Len(to_update)
PassOver ==
    \/ prog = "scraper" /\ pc \in {"save_json", "save_csv"}
    \/ prog = "menu" /\ pc = "loop" /\ i = Len(to_update)

\* C2 as stated: in a finished pass every delay stands between two detail
\* fetches: a fetch comes right before it and another fetch right after it, so
\* that no delay follows the last detail fetch.
C2_DelayOnlyBetweenFetches ==
    PassOver =>
        \A e \in 1..Len(trace) :
            IsDelay(trace[e]) =>
                /\ e > 1 /\ IsFetch(trace[e - 1])
                /\ e < Len(trace) /\ IsFetch(trace[e + 1])

\* C2 amended: in both passes a delay comes right after a detail fetch exactly
\* when the fetched item is not the last item of the list the pass loops over.
\* So exactly one delay separates two consecutive detail fetches and nothing
\* follows the fetch of the final item, but a delay does follow the last detail
\* fetch when the items after it are not fetched.
C2_DelayAfterEveryFetchButTheFinalItems ==
    prog \in {"scraper", "menu"} =>
        \A e \in 1..Len(trace) :
            /\ IsDelay(trace[e]) =>
                  /\ e > 1 /\ IsFetch(trace[e - 1])
                  /\ trace[e - 1].item = trace[e].item
                  /\ trace[e].item < PassLength - 1
            /\ (IsFetch(trace[e]) /\ trace[e].item < PassLength - 1) =>
                  e < Len(trace) /\ IsDelay(trace[e + 1])
            /\ (IsFetch(trace[e]) /\ trace[e].item = PassLength - 1) => e = Len(trace)
            /\ (IsFetch(trace[e]) /\ e > 2 /\ IsFetch(trace[e - 2])) => IsDelay(trace[e - 1])

C2_Witness ==
    /\ prog = "scraper" /\ pc = "save_json"
    /\ Len(brewery_cards) = 3
    /\ Len(FetchEvents) = 2
    /\ IsDelay(trace[Len(trace)])
    /\ \E e \in 2..(Len(trace) - 1) :
          IsFetch(trace[e - 1]) /\ IsDelay(trace[e]) /\ IsFetch(trace[e + 1])

\* C3 as stated: no run ends with an exception that nothing caught.
C3_NoUncaughtException == pc # "raised"

NonMenuFields ==
    {"name", "city", "brewery_type", "url", "address", "postal_code",
     "state_province", "country", "phone", "website_url", "social_media"}

\* C4 as stated: every record the main pass builds has every field of a
\* BreweryRecord but menu_url, a sentinel standing for absent data.
C4_EveryFieldPresent ==
    prog = "scraper" =>
        \A k \in 1..Len(all_breweries) : NonMenuFields \subseteq DOMAIN all_breweries[k]

Loaded == fs[SourceFile]
Written == fs[MenuJson]
MenuWritten == prog = "menu" /\ pc = "done" /\ MenuJson \in DOMAIN fs
HadMenu(k) == "menu_url" \in DOMAIN Loaded[k]
HasRealUrl(r) == "url" \in DOMAIN r /\ r.url # NA
\* the last record of the loaded set with the name of record k
LastNamed(k) ==
    CHOOSE m \in 1..Len(Loaded) :
        /\ NameOf(Loaded[m]) = NameOf(Loaded[k])
        /\ \A n \in 1..Len(Loaded) : NameOf(Loaded[n]) = NameOf(Loaded[k]) => n <= m
\* the records the loop fetches a page for
Fetched ==
    {k \in 1..Len(Loaded) :
        ~HadMenu(k) /\ NameOf(Loaded[k]) # EmptyStr /\ HasRealUrl(Loaded[LastNamed(k)])}

C5_OnlyAddsMenuUrl ==
    MenuWritten =>
        /\ Len(Written) = Len(Loaded)
        /\ \A k \in 1..Len(Loaded) :
              /\ DOMAIN Written[k] \subseteq DOMAIN Loaded[k] \cup {"menu_url"}
              /\ \A f \in DOMAIN Loaded[k] :
                    f \in DOMAIN Written[k] /\ Written[k][f] = Loaded[k][f]

\* C10 as stated: when the loop is over, every record that lacked menu_url and
\* has a non-empty name and a url other than "N/A" had its own url fetched,
\* once, and carries what that fetch gave.
C10_OwnUrlFetchedOnce ==
    (prog = "menu" /\ pc = "loop" /\ i = Len(to_update)) =>
        \A k \in 1..Len(Loaded) :
            (~HadMenu(k) /\ NameOf(Loaded[k]) # EmptyStr /\ HasRealUrl(Loaded[k])) =>
                /\ Cardinality({e \in 1..Len(FetchEvents) :
                                   FetchEvents[e].url = Loaded[k].url}) = 1
                /\ "menu_url" \in DOMAIN breweries[k]
                /\ breweries[k].menu_url \in {NA, MenuOf(Loaded[k].url)}

====
